---------------------------- MODULE Spec2Model ----------------------------
(***************************************************************************)
(* Model of NicorGasBillDownloader (downloader.mjs): the scan of one       *)
(* month's issuance window (tryDownloadingBill), the classification of a   *)
(* portal response (requestBill), the month loop (tryBulkDownload) and the *)
(* session cookies written by authenticate.                                *)
(*                                                                         *)
(* Every await of the source is a place where the environment answers: a   *)
(* fetch settles with a response or a transport error, a file write        *)
(* succeeds or fails.  Each of these is one action of the model.           *)
(***************************************************************************)
EXTENDS Integers, Sequences, FiniteSets, TLC

(***************************************************************************)
(* Bounds of the model.                                                    *)
(***************************************************************************)
\* Calendar months are numbered 0..MaxMonth, month 0 being January FirstYear.
MaxMonth == 2
FirstYear == 2023
\* How many portal sessions authenticate() opens before the download call.
MaxLogins == 1
\* How many file writes the file system lets fail in one run.
MaxWriteFailures == 1

(***************************************************************************)
(* PollingOptions (downloader-options.mjs) and the clamp limits.           *)
(***************************************************************************)
DefaultStartTryingOn == 14
DefaultStopTryingOn == 20
MinDay == 0
MaxDay == 31

NullBody == "null"
NoStream == <<>>
NoCookies == <<>>

Min(a, b) == IF a < b THEN a ELSE b
Max(a, b) == IF a > b THEN a ELSE b

(***************************************************************************)
(* Dates.  A date is [m |-> month number, d |-> day of the month].  The    *)
(* JavaScript Date constructor normalises a day outside the month into the *)
(* neighbouring month.                                                     *)
(***************************************************************************)
YearOf(m) == FirstYear + (m \div 12)
MonthOf(m) == m % 12

IsLeapYear(y) == (y % 4 = 0 /\ y % 100 # 0) \/ y % 400 = 0

DaysInMonth(m) ==
    IF MonthOf(m) = 1 THEN (IF IsLeapYear(YearOf(m)) THEN 29 ELSE 28)
    ELSE IF MonthOf(m) \in {3, 5, 8, 10} THEN 30
    ELSE 31

\* new Date(issuedYear, issuedMonth, day), for day in 0..31
NewDate(m, day) ==
    IF day < 1 THEN [m |-> m - 1, d |-> DaysInMonth(m - 1) + day]
    ELSE IF day > DaysInMonth(m) THEN [m |-> m + 1, d |-> day - DaysInMonth(m)]
    ELSE [m |-> m, d |-> day]

\* format(date, 'yyyy-MM-dd') and format(date, 'MM/dd/yyyy'): the fields printed
FormatIso(date) == <<YearOf(date.m), MonthOf(date.m) + 1, date.d>>
FormatUs(date) == <<MonthOf(date.m) + 1, date.d, YearOf(date.m)>>
\* format(issuedDate, 'MM/yyyy')
FormatMonth(m) == <<MonthOf(m) + 1, YearOf(m)>>

DateLE(a, b) == a.m < b.m \/ (a.m = b.m /\ a.d <= b.d)

(***************************************************************************)
(* Inputs the model draws from.                                            *)
(***************************************************************************)
AccountNumber == "12349780000"
BillId == "98567123467"

InputDays == {1, 15}
InputDates == [m : 0..MaxMonth, d : InputDays]

\* An options object is the set of its own properties, <<name, value>>; the
\* argument undefined has none.
Undefined == {}
Opt(a, b) == {<<"startTryingOn", a>>, <<"stopTryingOn", b>>}

\* pollingOptions of a tryDownloadingBill call: undefined, partial objects,
\* values below 0 and above 31, inverted windows.
ScanPollingInputs ==
    { Undefined,
      {<<"startTryingOn", 18>>}, {<<"stopTryingOn", 16>>},
      Opt(-3, 1), Opt(-3, -1), Opt(30, 35), Opt(33, 35), Opt(28, 31),
      Opt(20, 14), Opt(35, -3), Opt(16, 15), Opt(0, 0) }

\* (from, to) of a tryBulkDownload call; from may be after to, by at most a month
BulkIntervals == {iv \in InputDates \X InputDates : iv[1].m <= iv[2].m + 1}

\* pollingOptions of a tryBulkDownload call
BulkPollingInputs == { Undefined, Opt(14, 15), Opt(31, 40), Opt(16, 15) }

\* A response has no body or a body; the bytes of the body of the n-th
\* request's response are Bytes(n), whatever they are.
Bodies == {NullBody, "body"}
Bytes(n) == <<"bytes of response", n>>
ContentTypes == {"application/pdf", "text/html"}
FetchError == [kind |-> "TypeError"]
Responses ==
    [kind : {"response"}, redirected : BOOLEAN, generic : BOOLEAN,
     contentType : ContentTypes, body : Bodies]
FetchOutcomes == Responses \cup {FetchError}

NoResponse == [kind |-> "none"]

\* How a call ended: not made, still running, returned, or threw an error.
NotCalled == [kind |-> "none"]
Pending == [kind |-> "pending"]
Returned == [kind |-> "returned"]
Threw(name, message) == [kind |-> "threw", error |-> name, message |-> message]
NoDate == [m |-> -1, d |-> -1]

(***************************************************************************)
(* State.                                                                  *)
(***************************************************************************)
VARIABLES
    sessionCookies,   \* this._sessionCookies
    pc,               \* where the run stands
    api,              \* the method the caller invoked
    pollingOptions,   \* the pollingOptions argument
    issuedMonth,      \* issuedYear and issuedMonth of the scan in progress
    startTryingOn,    \* clamped start
    stopTryingOn,     \* clamped stop
    day,              \* loop variable of the scan
    estimatedBillDate,
    response,         \* what the fetch of the current probe settled with
    outcome,          \* how requestBill settled: "none", "stream", "AuthenticationError", "Error"
    stream,           \* the body requestBill resolved with
    probes,           \* every request sent, in order
    settled,          \* how each sent request was answered, in order (ProbeOutcome)
    inflight,         \* probe requests sent and not yet settled
    writes,           \* every fs.writeFile call, in order, with its result
    files,            \* the save directory: path -> content
    completion,       \* how the last tryDownloadingBill call ended
    months,           \* months of tryBulkDownload
    i,                \* loop variable of tryBulkDownload (1-based)
    interval,         \* the (from, to) arguments of tryBulkDownload
    attempts,         \* months tryBulkDownload called tryDownloadingBill for, in order
    results,          \* how each of these calls ended, in order
    bulkCompletion    \* how tryBulkDownload ended

scanVars == <<issuedMonth, startTryingOn, stopTryingOn, day, estimatedBillDate,
              response, outcome, stream, completion>>
bulkVars == <<months, i, interval, attempts, results, bulkCompletion>>
ioVars == <<probes, settled, inflight, writes, files>>
vars == <<sessionCookies, pc, api, pollingOptions, scanVars, bulkVars, ioVars>>

Init ==
    /\ sessionCookies = NoCookies
    /\ pc = "idle"
    /\ api = "none"
    /\ pollingOptions = Undefined
    /\ issuedMonth = -1
    /\ startTryingOn = 0
    /\ stopTryingOn = 0
    /\ day = 0
    /\ estimatedBillDate = NoDate
    /\ response = NoResponse
    /\ outcome = "none"
    /\ stream = NoStream
    /\ probes = <<>>
    /\ settled = <<>>
    /\ inflight = 0
    /\ writes = <<>>
    /\ files = {}
    /\ completion = NotCalled
    /\ months = <<>>
    /\ i = 0
    /\ interval = <<NoDate, NoDate>>
    /\ attempts = <<>>
    /\ results = <<>>
    /\ bulkCompletion = NotCalled


(***************************************************************************)
(* authenticate (downloader.mjs 151-171).  The browser login either gets   *)
(* to page.cookies() and stores the portal's cookies, or fails before the  *)
(* assignment and leaves the field as it was.                              *)
(***************************************************************************)
\* The cookies of the n-th portal session.
LoginCookies(n) == <<[name |-> "ASP.NET_SessionId", value |-> n]>>

\* the number of the session the stored cookies belong to, 0 for none
SessionNumber == IF sessionCookies = NoCookies THEN 0 ELSE sessionCookies[1].value

Authenticate(ok) ==
    /\ pc = "idle"
    /\ SessionNumber < MaxLogins
    /\ sessionCookies' = IF ok THEN LoginCookies(SessionNumber + 1) ELSE sessionCookies
    /\ UNCHANGED <<pc, api, pollingOptions, scanVars, bulkVars, ioVars>>

(***************************************************************************)
(* tryDownloadingBill (downloader.mjs 62-96).                              *)
(***************************************************************************)
\* new PollingOptions()
PollingOptions ==
    [startTryingOn |-> DefaultStartTryingOn, stopTryingOn |-> DefaultStopTryingOn]

\* Object.assign(target, source): the source's own properties overwrite the target's
ObjectAssign(target, source) ==
    [k \in DOMAIN target |->
        IF \E p \in source : p[1] = k
        THEN (CHOOSE p \in source : p[1] = k)[2]
        ELSE target[k]]

\* Clamp without its upper limit
ClampWithoutMin(v) == Max(MinDay, v)

\* Math.min(31, Math.max(0, v))
Clamp(v) == Min(MaxDay, Max(MinDay, v))

\* lines 63-70: the locals of a call, up to the loop's initialisation
EnterScan(issuedDate, opts) ==
    LET options == ObjectAssign(PollingOptions, opts) IN
    /\ issuedMonth' = issuedDate.m
    /\ startTryingOn' = Clamp(options.startTryingOn)
    /\ stopTryingOn' = Clamp(options.stopTryingOn)
    /\ day' = Clamp(options.startTryingOn)
    /\ estimatedBillDate' = NoDate
    /\ response' = NoResponse
    /\ outcome' = "none"
    /\ stream' = NoStream
    /\ completion' = Pending
    /\ pc' = "loop"

\* the caller invokes tryDownloadingBill directly
TryDownloadingBill(issuedDate, opts) ==
    /\ pc = "idle"
    /\ api' = "tryDownloadingBill"
    /\ pollingOptions' = opts
    /\ EnterScan(issuedDate, opts)
    /\ UNCHANGED <<sessionCookies, bulkVars, ioVars>>

\* the cookie header of a request (line 123)
CookieHeader(cookies) == [k \in 1..Len(cookies) |-> <<cookies[k].name, cookies[k].value>>]

\* the request requestBill sends for a bill date (lines 105-128)
ProbeRequest(billDate) ==
    [billDate |-> FormatUs(billDate), billId |-> BillId, cookie |-> CookieHeader(sessionCookies)]

\* LoopProbe as the head of a do-while loop: the first day is probed untested
LoopProbeUntestedFirst ==
    /\ pc = "loop"
    /\ day <= stopTryingOn \/ day = startTryingOn
    /\ estimatedBillDate' = NewDate(issuedMonth, day)
    /\ probes' = Append(probes, [month |-> issuedMonth, day |-> day,
                                 request |-> ProbeRequest(NewDate(issuedMonth, day))])
    /\ inflight' = inflight + 1
    /\ pc' = "fetch"
    /\ UNCHANGED <<sessionCookies, api, pollingOptions, issuedMonth,
                   startTryingOn, stopTryingOn, day, response, outcome, stream,
                   completion, bulkVars, settled, writes, files>>

\* LoopProbe without the await: the request is sent and the loop goes on
LoopProbeNotAwaited ==
    /\ pc = "loop"
    /\ day <= stopTryingOn
    /\ estimatedBillDate' = NewDate(issuedMonth, day)
    /\ probes' = Append(probes, [month |-> issuedMonth, day |-> day,
                                 request |-> ProbeRequest(NewDate(issuedMonth, day))])
    /\ inflight' = inflight + 1
    /\ day' = day + 1
    /\ pc' = "loop"
    /\ UNCHANGED <<sessionCookies, api, pollingOptions, issuedMonth,
                   startTryingOn, stopTryingOn, response, outcome, stream,
                   completion, bulkVars, settled, writes, files>>

\* lines 72-77 and 105-109: the loop test holds, the request for the day is sent
LoopProbe ==
    /\ pc = "loop"
    /\ day <= stopTryingOn
    /\ estimatedBillDate' = NewDate(issuedMonth, day)
    /\ probes' = Append(probes, [month |-> issuedMonth, day |-> day,
                                 request |-> ProbeRequest(NewDate(issuedMonth, day))])
    /\ inflight' = inflight + 1
    /\ pc' = "fetch"
    /\ UNCHANGED <<sessionCookies, api, pollingOptions, issuedMonth,
                   startTryingOn, stopTryingOn, day, response, outcome, stream,
                   completion, bulkVars, settled, writes, files>>

\* lines 72, 94-95: the loop test fails, the call throws
LoopExhausted ==
    /\ pc = "loop"
    /\ day > stopTryingOn
    /\ completion' = Threw("Error", <<"Unable to find and/or download a bill for the month of",
                                      FormatMonth(issuedMonth)>>)
    /\ pc' = "ret"
    /\ UNCHANGED <<sessionCookies, api, pollingOptions, issuedMonth,
                   startTryingOn, stopTryingOn, day, estimatedBillDate, response,
                   outcome, stream, bulkVars, ioVars>>

(***************************************************************************)
(* requestBill (downloader.mjs 104-144): how the call settles for what the *)
(* fetch settled with.                                                     *)
(***************************************************************************)
\* RequestBill testing the content type before the redirect
RequestBillPdfFirst(r) ==
    IF r.kind # "response"
    THEN [settled |-> "rejected", error |-> "Error", body |-> NullBody]
    ELSE IF r.contentType = "application/pdf" /\ r.body # NullBody
    THEN [settled |-> "resolved", error |-> "none", body |-> r.body]
    ELSE IF r.redirected /\ r.generic
    THEN [settled |-> "rejected", error |-> "AuthenticationError", body |-> NullBody]
    ELSE [settled |-> "rejected", error |-> "undefined", body |-> NullBody]

RequestBill(r) ==
    IF r.kind # "response"
    THEN [settled |-> "rejected", error |-> "Error", body |-> NullBody]
    ELSE IF r.redirected /\ r.generic
    THEN [settled |-> "rejected", error |-> "AuthenticationError", body |-> NullBody]
    ELSE IF r.contentType = "application/pdf" /\ r.body # NullBody
    THEN [settled |-> "resolved", error |-> "none", body |-> r.body]
    ELSE [settled |-> "rejected", error |-> "undefined", body |-> NullBody]

\* the ProbeOutcome of spec section 3 that a settled requestBill call stands for
ProbeOutcome(settlement) ==
    IF settlement.settled = "resolved" THEN "DocumentFound"
    ELSE IF settlement.error = "AuthenticationError" THEN "AuthenticationFailed"
    ELSE "NotFound"

\* line 77: the fetch settles and requestBill settles with it
FetchSettles(r) ==
    /\ pc = "fetch"
    /\ response' = r
    /\ inflight' = inflight - 1
    /\ outcome' = (IF RequestBill(r).settled = "resolved" THEN "stream" ELSE RequestBill(r).error)
    /\ stream' = (IF RequestBill(r).settled = "resolved" THEN Bytes(Len(probes)) ELSE NoStream)
    /\ settled' = Append(settled, [month |-> issuedMonth, day |-> day,
                                   outcome |-> ProbeOutcome(RequestBill(r))])
    /\ pc' = "requested"
    /\ UNCHANGED <<sessionCookies, api, pollingOptions, issuedMonth,
                   startTryingOn, stopTryingOn, day, estimatedBillDate, completion,
                   bulkVars, probes, writes, files>>

\* SavePath naming the file after the first day of the requested month
SavePathOfIssuedMonth(billDate) ==
    [account |-> AccountNumber, date |-> FormatIso([m |-> issuedMonth, d |-> 1]), ext |-> "pdf"]

\* lines 80-81
SavePath(billDate) == [account |-> AccountNumber, date |-> FormatIso(billDate), ext |-> "pdf"]

\* lines 78-82: a bill was found, fs.writeFile is called
StartWrite ==
    /\ pc = "requested"
    /\ outcome = "stream"
    /\ pc' = "write"
    /\ UNCHANGED <<sessionCookies, api, pollingOptions, scanVars, bulkVars, ioVars>>

\* the directory after a write to path left content there
Put(dir, path, content) ==
    {f \in dir : f.path # path} \cup {[path |-> path, content |-> content]}

\* what a failed write may leave of a file
Truncated == <<"truncated">>

FailedWrites == Len(SelectSeq(writes, LAMBDA w : ~w.ok))

\* lines 82-85: the write succeeds, the call returns
WriteSucceeds ==
    /\ pc = "write"
    /\ writes' = Append(writes, [month |-> issuedMonth, day |-> day, probe |-> Len(probes),
                                 path |-> SavePath(estimatedBillDate),
                                 content |-> stream, ok |-> TRUE])
    /\ files' = Put(files, SavePath(estimatedBillDate), stream)
    /\ completion' = Returned
    /\ response' = NoResponse
    /\ pc' = "ret"
    /\ UNCHANGED <<sessionCookies, api, pollingOptions, issuedMonth,
                   startTryingOn, stopTryingOn, day, estimatedBillDate,
                   outcome, stream, bulkVars, probes, settled, inflight>>

\* lines 82, 86-92: the write fails (leaving nothing or a truncated file); the
\* error is no AuthenticationError, so the catch block falls through to day++
WriteFails(truncated) ==
    /\ pc = "write"
    /\ FailedWrites < MaxWriteFailures
    /\ writes' = Append(writes, [month |-> issuedMonth, day |-> day, probe |-> Len(probes),
                                 path |-> SavePath(estimatedBillDate),
                                 content |-> stream, ok |-> FALSE])
    /\ files' = IF truncated THEN Put(files, SavePath(estimatedBillDate), Truncated)
                ELSE files
    /\ day' = day + 1
    /\ response' = NoResponse
    /\ outcome' = "none"
    /\ stream' = NoStream
    /\ pc' = "loop"
    /\ UNCHANGED <<sessionCookies, api, pollingOptions, issuedMonth,
                   startTryingOn, stopTryingOn, estimatedBillDate, completion,
                   bulkVars, probes, settled, inflight>>

\* CatchAuthenticationError without its return: the loop goes on to the next day
CatchAuthenticationErrorNoReturn ==
    /\ pc = "requested"
    /\ outcome = "AuthenticationError"
    /\ day' = day + 1
    /\ response' = NoResponse
    /\ outcome' = "none"
    /\ stream' = NoStream
    /\ pc' = "loop"
    /\ UNCHANGED <<sessionCookies, api, pollingOptions, issuedMonth,
                   startTryingOn, stopTryingOn, estimatedBillDate, completion,
                   bulkVars, ioVars>>

\* CatchAuthenticationError logging in again before it returns
CatchAuthenticationErrorWithRelogin ==
    /\ pc = "requested"
    /\ outcome = "AuthenticationError"
    /\ sessionCookies' = LoginCookies(SessionNumber + 1)
    /\ completion' = Returned
    /\ response' = NoResponse
    /\ pc' = "ret"
    /\ UNCHANGED <<api, pollingOptions, issuedMonth,
                   startTryingOn, stopTryingOn, day, estimatedBillDate,
                   outcome, stream, bulkVars, ioVars>>

\* lines 86-90: requestBill threw an AuthenticationError, the call returns
CatchAuthenticationError ==
    /\ pc = "requested"
    /\ outcome = "AuthenticationError"
    /\ completion' = Returned
    /\ response' = NoResponse
    /\ pc' = "ret"
    /\ UNCHANGED <<sessionCookies, api, pollingOptions, issuedMonth,
                   startTryingOn, stopTryingOn, day, estimatedBillDate,
                   outcome, stream, bulkVars, ioVars>>

\* CatchOther stepping over a day
CatchOtherSkipsDay ==
    /\ pc = "requested"
    /\ outcome \in {"Error", "undefined"}
    /\ day' = day + 2
    /\ response' = NoResponse
    /\ outcome' = "none"
    /\ stream' = NoStream
    /\ pc' = "loop"
    /\ UNCHANGED <<sessionCookies, api, pollingOptions, issuedMonth,
                   startTryingOn, stopTryingOn, estimatedBillDate, completion,
                   bulkVars, ioVars>>

\* CatchOther without the day++ of the loop: the same day is tried again
CatchOtherRetriesDay ==
    /\ pc = "requested"
    /\ outcome \in {"Error", "undefined"}
    /\ day' = day
    /\ response' = NoResponse
    /\ outcome' = "none"
    /\ stream' = NoStream
    /\ pc' = "loop"
    /\ UNCHANGED <<sessionCookies, api, pollingOptions, issuedMonth,
                   startTryingOn, stopTryingOn, estimatedBillDate, completion,
                   bulkVars, ioVars>>

\* lines 86-92: requestBill rejected with anything else, the loop goes on
CatchOther ==
    /\ pc = "requested"
    /\ outcome \in {"Error", "undefined"}
    /\ day' = day + 1
    /\ response' = NoResponse
    /\ outcome' = "none"
    /\ stream' = NoStream
    /\ pc' = "loop"
    /\ UNCHANGED <<sessionCookies, api, pollingOptions, issuedMonth,
                   startTryingOn, stopTryingOn, estimatedBillDate, completion,
                   bulkVars, ioVars>>

(***************************************************************************)
(* tryBulkDownload (downloader.mjs 48-55).                                 *)
(***************************************************************************)
StartOfMonth(m) == [m |-> m, d |-> 1]

\* the first days of the months a.m .. b.m, ascending
MonthsFrom(a, b) == [k \in 1..(b.m - a.m + 1) |-> StartOfMonth(a.m + k - 1)]

Reverse(seq) == [k \in 1..Len(seq) |-> seq[Len(seq) + 1 - k]]

\* date-fns eachMonthOfInterval({ start, end }) (line 49): the start is moved
\* to the first day of its month, and a month is listed while its first day
\* is not after the end.  For an interval whose start is after its end the
\* library throws a RangeError (date-fns 2) or lists the months in reverse
\* (date-fns 3 and later); the repository does not fix the version.
EachMonthOfInterval(start, end) ==
    IF DateLE(start, end)
    THEN {[threw |-> FALSE, months |-> MonthsFrom(start, end)]}
    ELSE {[threw |-> TRUE, months |-> <<>>],
          [threw |-> FALSE, months |-> Reverse(MonthsFrom(end, start))]}

\* lines 48-50: the caller invokes tryBulkDownload
TryBulkDownload(from, to, opts) ==
    /\ pc = "idle"
    /\ api' = "tryBulkDownload"
    /\ pollingOptions' = opts
    /\ interval' = <<from, to>>
    /\ \E r \in EachMonthOfInterval(from, to) :
          /\ months' = r.months
          /\ i' = 1
          /\ bulkCompletion' = IF r.threw THEN Threw("RangeError", <<"Invalid interval">>)
                               ELSE Pending
          /\ pc' = IF r.threw THEN "bulkDone" ELSE "bulkLoop"
    /\ UNCHANGED <<sessionCookies, scanVars, attempts, results, ioVars>>

\* lines 50-52: the loop test holds, tryDownloadingBill is called for months[i]
BulkCall ==
    /\ pc = "bulkLoop"
    /\ i <= Len(months)
    /\ attempts' = Append(attempts, months[i].m)
    /\ EnterScan(months[i], pollingOptions)
    /\ UNCHANGED <<sessionCookies, api, pollingOptions, months, i, interval,
                   results, bulkCompletion, ioVars>>

\* BulkNext stepping over a month
BulkNextSkipsMonth ==
    /\ pc = "ret"
    /\ api = "tryBulkDownload"
    /\ results' = Append(results, completion)
    /\ i' = i + 2
    /\ pc' = "bulkLoop"
    /\ UNCHANGED <<sessionCookies, api, pollingOptions, scanVars, months,
                   interval, attempts, bulkCompletion, ioVars>>

\* BulkNext without the try/catch: an error of the call ends tryBulkDownload
BulkNextWithoutCatch ==
    /\ pc = "ret"
    /\ api = "tryBulkDownload"
    /\ results' = Append(results, completion)
    /\ i' = i + 1
    /\ bulkCompletion' = IF completion.kind = "threw" THEN completion ELSE bulkCompletion
    /\ pc' = IF completion.kind = "threw" THEN "bulkDone" ELSE "bulkLoop"
    /\ UNCHANGED <<sessionCookies, api, pollingOptions, scanVars, months,
                   interval, attempts, ioVars>>

\* lines 52-53, 50: the call returned or threw; catch {} drops the error; i++
BulkNext ==
    /\ pc = "ret"
    /\ api = "tryBulkDownload"
    /\ results' = Append(results, completion)
    /\ i' = i + 1
    /\ pc' = "bulkLoop"
    /\ UNCHANGED <<sessionCookies, api, pollingOptions, scanVars, months,
                   interval, attempts, bulkCompletion, ioVars>>

\* lines 50, 55: the loop test fails, tryBulkDownload returns
BulkReturn ==
    /\ pc = "bulkLoop"
    /\ i > Len(months)
    /\ bulkCompletion' = Returned
    /\ pc' = "bulkDone"
    /\ UNCHANGED <<sessionCookies, api, pollingOptions, scanVars, months, i,
                   interval, attempts, results, ioVars>>

\* The tryBulkDownload calls of the model: a window of one day (or none) with
\* every interval, a window of two days with the intervals of at most two
\* months, a longer window with the intervals within one month.
WindowDays(opts) ==
    LET options == ObjectAssign(PollingOptions, opts)
    IN  Max(0, Clamp(options.stopTryingOn) - Clamp(options.startTryingOn) + 1)

MonthsSpanned(iv) == Max(iv[1].m - iv[2].m, iv[2].m - iv[1].m) + 1

BulkCalls ==
    {c \in BulkIntervals \X BulkPollingInputs :
        \/ WindowDays(c[2]) <= 1
        \/ MonthsSpanned(c[1]) <= 1
        \/ WindowDays(c[2]) <= 2 /\ MonthsSpanned(c[1]) <= 2}

(***************************************************************************)
(* One run: the object is constructed, authenticate may be called, then    *)
(* one of the two download methods is called and runs to its end.          *)
(***************************************************************************)
Next ==
    \/ \E ok \in BOOLEAN : Authenticate(ok)
    \/ \E d \in InputDates, o \in ScanPollingInputs : TryDownloadingBill(d, o)
    \/ LoopProbe
    \/ LoopExhausted
    \/ \E r \in FetchOutcomes : FetchSettles(r)
    \/ StartWrite
    \/ WriteSucceeds
    \/ \E t \in BOOLEAN : WriteFails(t)
    \/ CatchAuthenticationError
    \/ CatchOther
    \/ \E c \in BulkCalls : TryBulkDownload(c[1][1], c[1][2], c[2])
    \/ BulkCall
    \/ BulkNext
    \/ BulkReturn

Spec == Init /\ [][Next]_vars

(***************************************************************************)
(* The runs in which the length of a scan is in question: windows from the *)
(* widest to the default one, one answer of each kind for a request, the   *)
(* session left as constructed.  Every await of lines 51, 77 and 82        *)
(* settles and the event loop resumes the method, which weak fairness of   *)
(* the steps states.                                                       *)
(***************************************************************************)
LongScanPollingInputs == { Undefined, Opt(-3, 35), Opt(29, 31) }

\* tryBulkDownload calls with from and to on the first of a month
LongScanBulkCalls ==
    {c \in BulkIntervals \X { Undefined, Opt(14, 15) } :
        /\ c[1][1].d = 1 /\ c[1][2].d = 1
        /\ \/ WindowDays(c[2]) <= 2 /\ MonthsSpanned(c[1]) <= 2
           \/ MonthsSpanned(c[1]) <= 1}

\* one answer for each way requestBill settles
LongScanFetchOutcomes ==
    { FetchError,
      [kind |-> "response", redirected |-> FALSE, generic |-> FALSE,
       contentType |-> "text/html", body |-> "body"],
      [kind |-> "response", redirected |-> FALSE, generic |-> FALSE,
       contentType |-> "application/pdf", body |-> "body"],
      [kind |-> "response", redirected |-> TRUE, generic |-> TRUE,
       contentType |-> "text/html", body |-> "body"] }

LongScanNext ==
    \/ \E o \in LongScanPollingInputs : TryDownloadingBill(StartOfMonth(0), o)
    \/ LoopProbe
    \/ LoopExhausted
    \/ \E r \in LongScanFetchOutcomes : FetchSettles(r)
    \/ StartWrite
    \/ WriteSucceeds
    \/ \E t \in BOOLEAN : WriteFails(t)
    \/ CatchAuthenticationError
    \/ CatchOther
    \/ \E c \in LongScanBulkCalls : TryBulkDownload(c[1][1], c[1][2], c[2])
    \/ BulkCall
    \/ BulkNext
    \/ BulkReturn

LongScanSpec == Init /\ [][LongScanNext]_vars /\ WF_vars(LongScanNext)

(***************************************************************************)
(* What the properties below speak of.                                     *)
(***************************************************************************)
\* the indices of the requests sent for month m, and of its file writes
ProbesOf(m) == {n \in 1..Len(probes) : probes[n].month = m}
WritesOf(m) == {n \in 1..Len(writes) : writes[n].month = m}
\* the requests of month m answered with a given ProbeOutcome
AnsweredWith(m, o) == {n \in 1..Len(settled) : settled[n].month = m /\ settled[n].outcome = o}

\* a tryDownloadingBill call has been made for issuedMonth; it has ended
ScanCalled == completion # NotCalled
ScanEnded == completion \in {Returned} \/ completion.kind = "threw"

\* the error the scan throws when the window is exhausted
Exhaustion(m) ==
    [kind |-> "threw", error |-> "Error",
     message |-> <<"Unable to find and/or download a bill for the month of", FormatMonth(m)>>]

\* a value clamped into [0, 31], written out case by case
Clamped(v) == IF v < 0 THEN 0 ELSE IF v > 31 THEN 31 ELSE v

\* the startTryingOn and stopTryingOn a call was given (the defaults when absent)
Given(name, default) ==
    IF \E p \in pollingOptions : p[1] = name
    THEN (CHOOSE p \in pollingOptions : p[1] = name)[2]
    ELSE default
GivenStart == Given("startTryingOn", 14)
GivenStop == Given("stopTryingOn", 20)

(***************************************************************************)
(* C1.  In a tryDownloadingBill call, when the N-th request of the month   *)
(* is the first one answered with a document, exactly N requests are sent  *)
(* for the month: none follows the first DocumentFound, whatever the       *)
(* write that follows it does.                                             *)
(* The code sends further requests when that write fails (see C9).         *)
(***************************************************************************)
C1_NoProbeAfterFirstDocument ==
    \A n \in AnsweredWith(issuedMonth, "DocumentFound") :
        \A k \in ProbesOf(issuedMonth) : k <= n

(***************************************************************************)
(* C2.  Once a request of a month is answered with AuthenticationFailed,   *)
(* no request is sent for that month after it, no file write is made for   *)
(* that month after it, and the month has no saved document.               *)
(***************************************************************************)
C2_AuthenticationFailureStopsScan ==
    \A n \in 1..Len(settled) :
        settled[n].outcome = "AuthenticationFailed" =>
            /\ \A k \in ProbesOf(settled[n].month) : k <= n
            /\ \A w \in WritesOf(settled[n].month) : writes[w].probe < n /\ ~writes[w].ok
            /\ settled[n].month = issuedMonth => pc \notin {"loop", "fetch", "write"}

\* an authentication failure on a day before the window's last, the call over
C2_Witness ==
    /\ pc = "ret"
    /\ \E n \in AnsweredWith(issuedMonth, "AuthenticationFailed") :
          settled[n].day < stopTryingOn

(***************************************************************************)
(* C3.  A tryDownloadingBill call that ends after an AuthenticationFailed  *)
(* answer ends with a failure; it completes normally only if a document    *)
(* was saved for the month.                                                *)
(* The code returns normally after logging the authentication error.       *)
(***************************************************************************)
C3_NormalReturnMeansSaved ==
    (pc = "ret" /\ completion = Returned) =>
        \E w \in WritesOf(issuedMonth) : writes[w].ok

(***************************************************************************)
(* C4.  tryBulkDownload calls tryDownloadingBill for every month of its    *)
(* list whatever the earlier calls did: a call that threw (exhaustion) or  *)
(* that ended on AuthenticationFailed is followed by the call for the next *)
(* month, and tryBulkDownload never ends with an error of a month's call.  *)
(***************************************************************************)
C4_MonthFailureNeverAbortsBatch ==
    /\ pc \in {"bulkLoop", "bulkDone"} /\ bulkCompletion # NotCalled =>
          /\ Len(results) = Len(attempts)
          /\ \A k \in 1..Len(attempts) : attempts[k] = months[k].m
    /\ pc = "bulkLoop" => Len(attempts) = i - 1
    /\ pc = "bulkDone" =>
          /\ Len(attempts) = Len(months)
          /\ bulkCompletion.kind = "threw" => attempts = <<>>
          /\ attempts # <<>> => bulkCompletion = Returned

\* three months: the first threw, the second ended on AuthenticationFailed,
\* the third was still called and saved its document
C4_Witness ==
    /\ pc = "bulkDone"
    /\ Len(results) = 3
    /\ results[1].kind = "threw"
    /\ AnsweredWith(attempts[2], "AuthenticationFailed") # {}
    /\ \E w \in WritesOf(attempts[3]) : writes[w].ok

(***************************************************************************)
(* C5.  When every request of a call is answered NotFound, the call sends  *)
(* one request for each day from the clamped start to the clamped stop,    *)
(* in ascending order, writes nothing and throws the exhaustion error      *)
(* naming the month; with no polling options the days are 14 to 20, seven  *)
(* requests.                                                               *)
(***************************************************************************)
\* the days of the requests sent for month m, in the order sent
DaysProbed(m) ==
    LET ps == SelectSeq(probes, LAMBDA p : p.month = m)
    IN  [k \in 1..Len(ps) |-> ps[k].day]

\* the days a, a+1, ..., b
DaysFromTo(a, b) == IF b < a THEN <<>> ELSE [k \in 1..(b - a + 1) |-> a + k - 1]

AllNotFound(m) ==
    \A n \in 1..Len(settled) : settled[n].month = m => settled[n].outcome = "NotFound"

C5_ExhaustionProbesEveryDayOnce ==
    (pc = "ret" /\ AllNotFound(issuedMonth)) =>
        /\ DaysProbed(issuedMonth) = DaysFromTo(Clamped(GivenStart), Clamped(GivenStop))
        /\ WritesOf(issuedMonth) = {}
        /\ completion = Exhaustion(issuedMonth)
        /\ pollingOptions = Undefined => DaysProbed(issuedMonth) = <<14, 15, 16, 17, 18, 19, 20>>

\* the default window, exhausted after seven NotFound answers
C5_Witness ==
    /\ pc = "ret"
    /\ pollingOptions = Undefined
    /\ AllNotFound(issuedMonth)
    /\ Cardinality(AnsweredWith(issuedMonth, "NotFound")) = 7

(***************************************************************************)
(* C6.  For every integer pair (startTryingOn, stopTryingOn), also         *)
(* negative and above 31, the window a call scans is the pair clamped into *)
(* [0, 31]: every day probed lies between the clamped start and the        *)
(* clamped stop, hence in [0, 31], and the scan starts on the clamped      *)
(* start.                                                                  *)
(***************************************************************************)
C6_WindowIsClampedInput ==
    ScanCalled =>
        /\ startTryingOn = Clamped(GivenStart)
        /\ stopTryingOn = Clamped(GivenStop)
        /\ \A n \in ProbesOf(issuedMonth) :
              /\ probes[n].day \in 0..31
              /\ probes[n].day >= Clamped(GivenStart)
              /\ probes[n].day <= Clamped(GivenStop)
        /\ (ProbesOf(issuedMonth) # {}) =>
              DaysProbed(issuedMonth)[1] = Clamped(GivenStart)

\* a call given (33, 35) has probed day 31
C6_Witness ==
    /\ GivenStart = 33 /\ GivenStop = 35
    /\ \E n \in ProbesOf(issuedMonth) : probes[n].day = 31

(***************************************************************************)
(* C7.  A call whose clamped stop is smaller than its clamped start sends  *)
(* no request, writes nothing and throws the exhaustion error.             *)
(***************************************************************************)
C7_InvertedWindowProbesNothing ==
    (ScanCalled /\ Clamped(GivenStop) < Clamped(GivenStart)) =>
        /\ ProbesOf(issuedMonth) = {}
        /\ WritesOf(issuedMonth) = {}
        /\ pc \notin {"fetch", "requested", "write"}
        /\ ScanEnded => completion = Exhaustion(issuedMonth)

\* a call given (35, -3), clamped to (31, 0), has ended
C7_Witness ==
    /\ pc = "ret"
    /\ GivenStart = 35 /\ GivenStop = -3

(***************************************************************************)
(* C8.  For every call at most one document is saved, and the saved        *)
(* document is the one of the earliest request of the month answered with  *)
(* DocumentFound, whatever requests and writes do.                         *)
(* The code saves a later day's document when the write of the earliest    *)
(* one fails (see C9).                                                     *)
(***************************************************************************)
C8_FirstFoundDocumentIsTheOneSaved ==
    \A w \in 1..Len(writes) :
        writes[w].ok =>
            /\ \A v \in WritesOf(writes[w].month) : writes[v].ok => v = w
            /\ \A n \in AnsweredWith(writes[w].month, "DocumentFound") : writes[w].probe <= n

(***************************************************************************)
(* C9.  When the write of a found document fails, the call ends with that  *)
(* failure thrown to its caller: it is not dropped, not taken for          *)
(* NotFound, and no request is sent for a later day.                       *)
(* The code's catch block drops every error that is no AuthenticationError *)
(* and the loop goes on with the next day.                                 *)
(***************************************************************************)
C9_WriteFailureIsPropagated ==
    \A w \in 1..Len(writes) :
        ~writes[w].ok =>
            /\ \A k \in ProbesOf(writes[w].month) : k <= writes[w].probe
            /\ writes[w].month = issuedMonth =>
                  /\ ScanEnded
                  /\ completion.kind = "threw"
                  /\ completion # Exhaustion(issuedMonth)

(***************************************************************************)
(* C10.  tryBulkDownload(from, to) calls tryDownloadingBill exactly once   *)
(* for each calendar month whose first day falls within [from, to], for no *)
(* other month, in chronological order.                                    *)
(* The code also calls it for the month that contains from when from is    *)
(* not the first day of its month.  As amended: for from not after to,     *)
(* the months called are those from the month containing from to the month *)
(* containing to, each once, in chronological order.                       *)
(***************************************************************************)
CalendarMonths == -1..(MaxMonth + 2)

\* seq lists the months of the set S, each once, in ascending order
ListsAscending(seq, S) ==
    /\ \A k \in 1..Len(seq) : seq[k] \in S
    /\ \A m \in S : \E k \in 1..Len(seq) : seq[k] = m
    /\ \A j, k \in 1..Len(seq) : j < k => seq[j] < seq[k]

\* the claim as made, for the intervals with from not after to
C10_MonthsWhoseFirstDayIsInInterval ==
    (pc = "bulkDone" /\ DateLE(interval[1], interval[2])) =>
        ListsAscending(attempts,
            {m \in CalendarMonths : /\ DateLE(interval[1], [m |-> m, d |-> 1])
                                    /\ DateLE([m |-> m, d |-> 1], interval[2])})

\* the amended claim
C10_MonthsFromMonthOfFromToMonthOfTo ==
    (api = "tryBulkDownload" /\ DateLE(interval[1], interval[2])) =>
        LET S == {m \in CalendarMonths : interval[1].m <= m /\ m <= interval[2].m}
        IN  /\ \A k \in 1..Len(attempts) : attempts[k] \in S
            /\ \A j, k \in 1..Len(attempts) : j < k => attempts[j] < attempts[k]
            /\ pc = "bulkDone" => ListsAscending(attempts, S)

\* from the 15th of January to the 1st of March: January, February, March
C10_Witness ==
    /\ pc = "bulkDone"
    /\ interval = <<[m |-> 0, d |-> 15], [m |-> 2, d |-> 1]>>
    /\ attempts = <<0, 1, 2>>

(***************************************************************************)
(* C11.  A successful write of tryDownloadingBill puts exactly the bytes   *)
(* of the response of the request that found the document into the file    *)
(* {accountNumber}-{yyyy-MM-dd}.pdf, the date being the date that request  *)
(* asked for (not the first day of the requested month), and the call      *)
(* sends no request after it.  With the window 14 to 20, NotFound on the   *)
(* days 14 to 17 and a document on day 18, five requests are sent and the  *)
(* file carries the date of day 18.                                        *)
(***************************************************************************)
\* the date a request asked for, as the file name prints it: from MM/dd/yyyy
DateAskedFor(n) ==
    LET us == probes[n].request.billDate IN <<us[3], us[1], us[2]>>

\* the scan of issuedMonth so far: NotFound on the days 14 to 17, a document on day 18
FoundOnDay18 ==
    LET ss == SelectSeq(settled, LAMBDA s : s.month = issuedMonth)
    IN  /\ Len(ss) = 5
        /\ \A k \in 1..4 : ss[k].day = 13 + k /\ ss[k].outcome = "NotFound"
        /\ ss[5].day = 18 /\ ss[5].outcome = "DocumentFound"

C11_SavedFileIsTheFoundDocument ==
    /\ \A w \in 1..Len(writes) :
          writes[w].ok =>
              /\ writes[w].probe \in 1..Len(settled)
              /\ settled[writes[w].probe].outcome = "DocumentFound"
              /\ writes[w].content = Bytes(writes[w].probe)
              /\ writes[w].path = [account |-> AccountNumber,
                                   date |-> DateAskedFor(writes[w].probe),
                                   ext |-> "pdf"]
              /\ \A n \in ProbesOf(writes[w].month) : n <= writes[w].probe
              /\ w = Len(writes) =>
                    [path |-> writes[w].path, content |-> writes[w].content] \in files
    /\ (pc = "ret" /\ pollingOptions = Undefined /\ FoundOnDay18
          /\ writes # <<>> /\ writes[Len(writes)].ok) =>
              /\ Cardinality(ProbesOf(issuedMonth)) = 5
              /\ writes[Len(writes)].path.date = <<YearOf(issuedMonth), MonthOf(issuedMonth) + 1, 18>>

\* the scenario: the days 14 to 17 answered NotFound, day 18 found and saved
C11_Witness ==
    /\ pc = "ret"
    /\ api = "tryDownloadingBill"
    /\ pollingOptions = Undefined
    /\ FoundOnDay18
    /\ Len(writes) = 1 /\ writes[1].ok /\ writes[1].day = 18
    /\ completion = Returned

(***************************************************************************)
(* C12.  requestBill settles every answer of the fetch as exactly one of   *)
(* the three outcomes: redirected to a URL containing "Generic" is         *)
(* AuthenticationFailed, even with content type application/pdf and a      *)
(* body; otherwise application/pdf with a body is DocumentFound; every     *)
(* other response and every error raised by the fetch is a failure that    *)
(* is no AuthenticationError, and the scan answers it by going on to the   *)
(* next day without sending, writing or ending anything.                   *)
(***************************************************************************)
\* the outcome the claim gives to what a fetch settled with
Classified(r) ==
    CASE r.kind = "response" /\ r.redirected /\ r.generic -> "AuthenticationFailed"
      [] r.kind = "response" /\ ~(r.redirected /\ r.generic)
            /\ r.contentType = "application/pdf" /\ r.body # NullBody -> "DocumentFound"
      [] OTHER -> "NotFound"

\* how tryDownloadingBill sees each outcome: a stream, or the error caught
SeenAs(o) ==
    CASE o = "DocumentFound" -> {"stream"}
      [] o = "AuthenticationFailed" -> {"AuthenticationError"}
      [] o = "NotFound" -> {"Error", "undefined"}

C12_ResponseClassification ==
    [][ /\ pc' = "requested" =>
              /\ settled'[Len(settled')].outcome = Classified(response')
              /\ outcome' \in SeenAs(Classified(response'))
        /\ (pc = "requested" /\ Classified(response) = "NotFound") =>
              /\ pc' = "loop"
              /\ day' = day + 1
              /\ UNCHANGED <<probes, settled, writes, files, completion, issuedMonth>>
      ]_vars

\* a redirect to the generic page that carries a PDF body: AuthenticationError
C12_Witness ==
    /\ pc = "requested"
    /\ response = [kind |-> "response", redirected |-> TRUE, generic |-> TRUE,
                   contentType |-> "application/pdf", body |-> "body"]
    /\ outcome = "AuthenticationError"
    /\ settled[Len(settled)].outcome = "AuthenticationFailed"

(***************************************************************************)
(* C13.  In a run at most one request is in flight at any time: a request  *)
(* is sent only when every earlier request has been answered and no file   *)
(* write is running, and in tryBulkDownload a request for a month is sent  *)
(* only when the scans of all earlier months of the run have ended.        *)
(***************************************************************************)
\* the position in attempts of the scan a request belongs to
AttemptOf(n) == CHOOSE k \in 1..Len(attempts) : attempts[k] = probes[n].month

C13_OneProbeInFlight ==
    /\ inflight \in {0, 1}
    /\ Len(probes) = Len(settled) + inflight
    /\ inflight = 1 <=> pc = "fetch"
    /\ \A w \in 1..Len(writes) : writes[w].probe <= Len(settled)
    /\ api = "tryBulkDownload" =>
          /\ \A n \in 1..Len(probes) : \E k \in 1..Len(attempts) : attempts[k] = probes[n].month
          /\ \A n, n2 \in 1..Len(probes) : n < n2 => AttemptOf(n) <= AttemptOf(n2)
          /\ \A n \in 1..Len(probes) :
                AttemptOf(n) <= Len(results) \/ (AttemptOf(n) = Len(results) + 1 /\ pc # "bulkLoop")
          /\ inflight = 1 => AttemptOf(Len(probes)) = Len(results) + 1

\* the first request of a second month in flight, the first month's answered
C13_Witness ==
    /\ api = "tryBulkDownload"
    /\ inflight = 1
    /\ Len(probes) = 3
    /\ probes[2].month # probes[3].month
    /\ Len(results) = 1

(***************************************************************************)
(* C14.  For a candidate day that is no day of the requested month (day 0, *)
(* or a day past the month's end), the request tryDownloadingBill sends    *)
(* carries that day within the requested month as it is: BillDate is the   *)
(* requested month, the candidate day and the requested year, never a      *)
(* date of the previous or the next month.                                 *)
(* The code builds the date with new Date(issuedYear, issuedMonth, day),   *)
(* which turns such a day into a date of the neighbouring month.           *)
(***************************************************************************)
C14_DayIsSentAsIs ==
    \A n \in 1..Len(probes) :
        probes[n].request.billDate =
            <<MonthOf(probes[n].month) + 1, probes[n].day, YearOf(probes[n].month)>>

(***************************************************************************)
(* C15.  No request is ever sent unless an authenticate call has completed *)
(* successfully before it: while authenticate has not been called or has  *)
(* failed, tryBulkDownload and tryDownloadingBill send nothing, so every   *)
(* request on record carries a session cookie.                             *)
(* The code never tests _sessionCookies: it sends the request with an      *)
(* empty cookie header.                                                    *)
(***************************************************************************)
C15_NoProbeWithoutAuthentication ==
    /\ sessionCookies = NoCookies => probes = <<>>
    /\ \A n \in 1..Len(probes) : probes[n].request.cookie # <<>>

(***************************************************************************)
(* C16.  tryBulkDownload, tryDownloadingBill and requestBill leave the     *)
(* session cookies unchanged and never call authenticate: once a download  *)
(* method is running the cookies stay what the last completed authenticate *)
(* left, and every request carries exactly them, also a request sent after *)
(* an earlier one of the run was answered AuthenticationFailed.            *)
(***************************************************************************)
C16_DownloadsLeaveSessionUnchanged ==
    [][ /\ (pc # "idle" \/ pc' # "idle") => sessionCookies' = sessionCookies
        /\ Len(probes') > Len(probes) =>
              probes'[Len(probes')].request.cookie =
                  [k \in 1..Len(sessionCookies) |->
                      <<sessionCookies[k].name, sessionCookies[k].value>>]
      ]_vars

\* a request sent with the login's cookies after an AuthenticationFailed answer
C16_Witness ==
    /\ sessionCookies # NoCookies
    /\ inflight = 1
    /\ \E n \in 1..Len(settled) : settled[n].outcome = "AuthenticationFailed"
    /\ probes[Len(probes)].request.cookie = <<<<sessionCookies[1].name, sessionCookies[1].value>>>>

(***************************************************************************)
(* C17.  Provided every request and every write eventually settles, each   *)
(* tryDownloadingBill call ends after at most stop - start + 1 requests    *)
(* for the clamped window, 32 at most, and tryBulkDownload over k months   *)
(* ends after at most 32 * k requests and at most k successful writes.     *)
(***************************************************************************)
\* the number of days of the clamped window of the run
ClampedWindowDays ==
    IF Clamped(GivenStop) < Clamped(GivenStart) THEN 0
    ELSE Clamped(GivenStop) - Clamped(GivenStart) + 1

SuccessfulWrites == {w \in 1..Len(writes) : writes[w].ok}

\* the method the caller invoked has ended
RunEnded ==
    \/ api = "tryDownloadingBill" /\ pc = "ret" /\ ScanEnded
    \/ api = "tryBulkDownload" /\ pc = "bulkDone"

C17_ProbesAndWritesBounded ==
    /\ ClampedWindowDays <= 32
    /\ \A m \in {probes[n].month : n \in 1..Len(probes)} :
          Cardinality(ProbesOf(m)) <= ClampedWindowDays
    /\ api = "tryDownloadingBill" =>
          /\ Len(probes) <= 32
          /\ Cardinality(SuccessfulWrites) <= 1
    /\ api = "tryBulkDownload" =>
          /\ Len(probes) <= 32 * Len(months)
          /\ Cardinality(SuccessfulWrites) <= Len(months)

C17_RunTerminatesWithinBounds ==
    /\ []C17_ProbesAndWritesBounded
    /\ (api # "none") ~> RunEnded

\* a call that ended after 32 requests, one for each day from 0 to 31
C17_Witness ==
    /\ RunEnded
    /\ api = "tryDownloadingBill"
    /\ Len(probes) = 32
    /\ ClampedWindowDays = 32

(***************************************************************************)
(* C18.  When every request of a tryBulkDownload run over k months with a  *)
(* non-empty clamped window is answered AuthenticationFailed, the run      *)
(* sends exactly k requests, one per month, each for the first day of the  *)
(* window, writes no file, and returns without an error.                   *)
(***************************************************************************)
EveryAnswerAuthenticationFailed ==
    \A n \in 1..Len(settled) : settled[n].outcome = "AuthenticationFailed"

C18_InvalidSessionOneProbePerMonth ==
    (/\ api = "tryBulkDownload"
     /\ Len(months) >= 1
     /\ ClampedWindowDays >= 1
     /\ EveryAnswerAuthenticationFailed) =>
        /\ \A k \in 1..Len(probes) :
              /\ k <= Len(months)
              /\ probes[k].month = months[k].m
              /\ probes[k].day = Clamped(GivenStart)
        /\ writes = <<>>
        /\ files = {}
        /\ bulkCompletion.kind # "threw"
        /\ pc = "bulkDone" =>
              /\ Len(probes) = Len(months)
              /\ bulkCompletion = Returned

\* two months, a window of two days, both months answered AuthenticationFailed
C18_Witness ==
    /\ api = "tryBulkDownload"
    /\ pc = "bulkDone"
    /\ Len(months) = 2
    /\ ClampedWindowDays = 2
    /\ Len(settled) = 2
    /\ EveryAnswerAuthenticationFailed

(***************************************************************************)
(* C19.  In a tryBulkDownload run, whatever the clamped window, every date *)
(* a request for month M asks for is a date of month M, so the scans of    *)
(* two different months never ask for the same calendar date and never    *)
(* write the same file path.                                               *)
(* The code asks for dates of the neighbouring months (see C14).           *)
(***************************************************************************)
C19_ScansStayWithinTheirMonth ==
    (api = "tryBulkDownload" /\ DateLE(interval[1], interval[2])) =>
        /\ \A n \in 1..Len(probes) :
              /\ probes[n].request.billDate[1] = MonthOf(probes[n].month) + 1
              /\ probes[n].request.billDate[3] = YearOf(probes[n].month)
        /\ \A n, n2 \in 1..Len(probes) :
              probes[n].month # probes[n2].month =>
                  probes[n].request.billDate # probes[n2].request.billDate
        /\ \A w, w2 \in 1..Len(writes) :
              writes[w].month # writes[w2].month => writes[w].path # writes[w2].path

=============================================================================
